---- MODULE Spec2Model ----
(***************************************************************************)
(* Model of jwt-claims (src/src/lib.rs): the RegisteredClaims record, its  *)
(* validation predicates, the aggregate valid() and the serde wire codec.  *)
(*                                                                         *)
(* Instants (DateTime<Utc>) are integers counting ticks of                 *)
(* 1/TicksPerSecond second relative to the Unix epoch, so that the         *)
(* sub-second part that DateTime::timestamp() drops is representable.      *)
(* Option<T> is a sequence of length 0 (None) or 1 (Some).  A String is a  *)
(* sequence of bytes, each byte written as a one-character string.         *)
(***************************************************************************)
EXTENDS Integers, Sequences, FiniteSets, TLC

VARIABLES claims, op, now, required, cmp, result, wire, decoded

vars == <<claims, op, now, required, cmp, result, wire, decoded>>

----------------------------------------------------------------------------
(* Bounds of the model *)

TicksPerSecond == 2
PreEpochTicks == 2
MaxTick == 4
MaxStrLen == 1
MaxAud == 2

Instants == (0 - PreEpochTicks)..MaxTick

Alphabet == {"a", "x"}

Strings == UNION {[1..k -> Alphabet] : k \in 0..MaxStrLen}

Audiences == UNION {[1..k -> Strings] : k \in 0..MaxAud}

----------------------------------------------------------------------------
(* Data model *)

None == <<>>

Some(v) == <<v>>

OptInstants == {None} \cup {Some(t) : t \in Instants}

\* #[derive(Default)]: empty strings, empty Vec, None instants
Default ==
    [issuer |-> <<>>, subject |-> <<>>, audience |-> <<>>,
     expires_at |-> None, not_before |-> None, issued_at |-> None,
     id |-> <<>>]

\* DateTime::timestamp(): whole seconds since the epoch, sub-second part dropped
timestamp(t) == t \div TicksPerSecond

\* Utc::now(): the system clock, which chrono reads as a time since the epoch
UtcNow == {t \in Instants : t >= 0}

----------------------------------------------------------------------------
(* subtle::ConstantTimeEq on byte slices, as used at lines 88 and 137:      *)
(* 0 when the lengths differ, otherwise the AND over all byte equalities.   *)

RECURSIVE ct_eq_fold(_, _, _, _)
ct_eq_fold(a, b, i, acc) ==
    IF i > Len(a) THEN acc
    ELSE ct_eq_fold(a, b, i + 1, IF a[i] = b[i] THEN acc ELSE 0)

RECURSIVE ct_eq_prefix(_, _, _, _)
ct_eq_prefix(a, b, i, acc) ==
    IF i > Len(a) \/ i > Len(b) THEN acc
    ELSE ct_eq_prefix(a, b, i + 1, IF a[i] = b[i] THEN acc ELSE 0)

ct_eq_mut(a, b) == ct_eq_prefix(a, b, 1, 1)

ct_eq(a, b) ==
    IF Len(a) # Len(b) THEN 0 ELSE ct_eq_fold(a, b, 1, 1)

----------------------------------------------------------------------------
(* Validator predicates *)

verify_expires_at_mut(c, t, req) ==
    IF c.expires_at # None
    THEN IF timestamp(c.expires_at[1]) = 0
         THEN ~req
         ELSE t <= c.expires_at[1]
    ELSE ~req

verify_expires_at_nozero(c, t, req) ==
    IF c.expires_at # None
    THEN t < c.expires_at[1]
    ELSE ~req

verify_expires_at(c, t, req) ==
    IF c.expires_at # None
    THEN IF timestamp(c.expires_at[1]) = 0
         THEN ~req
         ELSE t < c.expires_at[1]
    ELSE ~req

verify_issued_at_mut(c, t, req) ==
    IF c.issued_at # None
    THEN IF timestamp(c.issued_at[1]) = 0
         THEN ~req
         ELSE t > c.issued_at[1]
    ELSE ~req

verify_issued_at(c, t, req) ==
    IF c.issued_at # None
    THEN IF timestamp(c.issued_at[1]) = 0
         THEN ~req
         ELSE t >= c.issued_at[1]
    ELSE ~req

verify_not_before_mut(c, t, req) ==
    IF c.not_before # None
    THEN IF timestamp(c.not_before[1]) = 0
         THEN ~req
         ELSE t > c.not_before[1]
    ELSE ~req

verify_not_before(c, t, req) ==
    IF c.not_before # None
    THEN IF timestamp(c.not_before[1]) = 0
         THEN ~req
         ELSE t >= c.not_before[1]
    ELSE ~req

verify_issuer(c, s, req) ==
    IF c.issuer = <<>> THEN ~req
    ELSE ct_eq(c.issuer, s) = 1

\* the for loop of verify_audience: the pair <<result, string_claims>>
RECURSIVE audience_loop(_, _, _, _, _)
audience_loop(aud, s, i, res, string_claims) ==
    IF i > Len(aud) THEN <<res, string_claims>>
    ELSE audience_loop(aud, s, i + 1,
                       IF ct_eq(aud[i], s) = 1 THEN TRUE ELSE res,
                       string_claims \o aud[i])

RECURSIVE audience_loop_mut(_, _, _, _, _)
audience_loop_mut(aud, s, i, res, string_claims) ==
    IF i > Len(aud) THEN <<res, string_claims>>
    ELSE audience_loop_mut(aud, s, i + 1,
                           ct_eq(aud[i], s) = 1,
                           string_claims \o aud[i])

verify_audience_mut(c, s, req) ==
    IF c.audience = <<>> THEN ~req
    ELSE LET r == audience_loop_mut(c.audience, s, 1, FALSE, <<>>)
         IN  IF r[2] = <<>> THEN ~req ELSE r[1]

verify_audience(c, s, req) ==
    IF c.audience = <<>> THEN ~req
    ELSE LET r == audience_loop(c.audience, s, 1, FALSE, <<>>)
         IN  IF r[2] = <<>> THEN ~req ELSE r[1]

valid_mut(c, t) ==
    IF ~verify_expires_at(c, t, FALSE) THEN "TokenExpired"
    ELSE IF ~verify_not_before(c, t, FALSE) THEN "TokenNotValidYet"
    ELSE IF ~verify_issued_at(c, t, FALSE) THEN "TokenUsedBeforeIssued"
    ELSE "Ok"

valid(c, t) ==
    IF ~verify_expires_at(c, t, FALSE) THEN "TokenExpired"
    ELSE IF ~verify_issued_at(c, t, FALSE) THEN "TokenUsedBeforeIssued"
    ELSE IF ~verify_not_before(c, t, FALSE) THEN "TokenNotValidYet"
    ELSE "Ok"

----------------------------------------------------------------------------
(* Wire codec: #[derive(Serialize, Deserialize)] with #[serde(default)].    *)
(* A wire document is the sequence of <<key, value>> members in the order   *)
(* they are written; an instant's value is its integer epoch seconds.       *)

\* #[serde(rename = ...)] of each field, in declaration order
rename == <<"iss", "sub", "aud", "exp", "exp", "exp", "jti">>

\* TimestampSeconds<i64>, serializing: the whole seconds of the instant
timestamp_seconds(t) == timestamp(t)

\* TimestampSeconds<i64>, deserializing: the instant at that whole second
from_timestamp_seconds(n) == n * TicksPerSecond

\* one struct field: skipped when skip_serializing_if holds
serialize_field(i, skip, value) ==
    IF skip THEN <<>> ELSE << <<rename[i], value>> >>

\* serde_json::to_string(&claims)
to_string(c) ==
    serialize_field(1, c.issuer = <<>>, c.issuer)
    \o serialize_field(2, c.subject = <<>>, c.subject)
    \o serialize_field(3, c.audience = <<>>, c.audience)
    \o serialize_field(4, c.expires_at = None,
          IF c.expires_at = None THEN 0 ELSE timestamp_seconds(c.expires_at[1]))
    \o serialize_field(5, c.not_before = None,
          IF c.not_before = None THEN 0 ELSE timestamp_seconds(c.not_before[1]))
    \o serialize_field(6, c.issued_at = None,
          IF c.issued_at = None THEN 0 ELSE timestamp_seconds(c.issued_at[1]))
    \o serialize_field(7, c.id = <<>>, c.id)

\* the derived field identifier: the first field whose wire name is the key,
\* 0 for a key that is ignored
field_of(key) ==
    IF \E i \in 1..Len(rename) : rename[i] = key
    THEN CHOOSE i \in 1..Len(rename) :
            rename[i] = key /\ \A j \in 1..(i - 1) : rename[j] # key
    ELSE 0

\* the derived visit_map: one Option slot per field, a key whose slot is
\* already filled is the error duplicate_field
RECURSIVE visit_map(_, _, _)
visit_map(doc, i, slots) ==
    IF i > Len(doc) THEN [ok |-> TRUE, slots |-> slots]
    ELSE LET f == field_of(doc[i][1])
         IN  IF f = 0 THEN visit_map(doc, i + 1, slots)
             ELSE IF Len(slots[f]) > 0
                  THEN [ok |-> FALSE, slots |-> slots]
                  ELSE visit_map(doc, i + 1,
                                 [slots EXCEPT ![f] = <<doc[i][2]>>])

\* serde_json::from_str::<RegisteredClaims>: a field whose slot stayed empty
\* takes the value of Default
from_str(doc) ==
    LET r == visit_map(doc, 1, [i \in 1..Len(rename) |-> <<>>])
        text(i, d) == IF Len(r.slots[i]) > 0 THEN r.slots[i][1] ELSE d
        instant(i, d) ==
            IF Len(r.slots[i]) > 0
            THEN Some(from_timestamp_seconds(r.slots[i][1]))
            ELSE d
    IN  IF ~r.ok
        THEN [ok |-> FALSE, err |-> "duplicate field", value |-> Default]
        ELSE [ok |-> TRUE, err |-> "",
              value |->
                [issuer |-> text(1, Default.issuer),
                 subject |-> text(2, Default.subject),
                 audience |-> text(3, Default.audience),
                 expires_at |-> instant(4, Default.expires_at),
                 not_before |-> instant(5, Default.not_before),
                 issued_at |-> instant(6, Default.issued_at),
                 id |-> text(7, Default.id)]]

----------------------------------------------------------------------------
(* Records under validation *)

NoResult == [ok |-> FALSE, err |-> "none", value |-> Default]

\* the text fields of tests::it_works, shortened, or all left at their default
TextVariants ==
    { [issuer |-> <<>>, subject |-> <<>>, audience |-> <<>>, id |-> <<>>],
      [issuer |-> <<"i">>, subject |-> <<"s">>,
       audience |-> << <<"a", "1">>, <<"a", "2">> >>, id |-> <<"j">>] }

CodecTexts == {<<>>, <<"s">>}

CodecAudiences == {<<>>, << <<"a", "1">> >>, << <<"a", "1">>, <<"a", "2">> >>}

InitCommon ==
    /\ op = "new"
    /\ now = 0
    /\ required = FALSE
    /\ cmp = <<>>
    /\ result = "none"
    /\ wire = <<>>
    /\ decoded = NoResult

\* records whose instants take every value, for the temporal checks
Init ==
    /\ \E tv \in TextVariants, e \in OptInstants, n \in OptInstants, i \in OptInstants :
          claims = [issuer |-> tv.issuer, subject |-> tv.subject,
                    audience |-> tv.audience, expires_at |-> e,
                    not_before |-> n, issued_at |-> i, id |-> tv.id]
    /\ InitCommon

\* records whose issuer and audience take every value, for the identity checks
InitText ==
    /\ \E iss \in Strings, aud \in Audiences :
          claims = [Default EXCEPT !.issuer = iss, !.audience = aud]
    /\ InitCommon

\* records for the codec
InitCodec ==
    /\ \E iss \in CodecTexts, sub \in CodecTexts, jti \in CodecTexts,
          aud \in CodecAudiences,
          e \in OptInstants, n \in OptInstants, i \in OptInstants :
          claims = [issuer |-> iss, subject |-> sub, audience |-> aud,
                    expires_at |-> e, not_before |-> n, issued_at |-> i,
                    id |-> jti]
    /\ InitCommon

----------------------------------------------------------------------------
(* Operations *)

Valid ==
    \E t \in UtcNow :
        /\ op' = "valid"
        /\ now' = t
        /\ required' = FALSE
        /\ result' = valid(claims, t)
        /\ UNCHANGED <<claims, cmp, wire, decoded>>

VerifyExpiresAt ==
    \E t \in Instants, req \in BOOLEAN :
        /\ op' = "verify_expires_at"
        /\ now' = t
        /\ required' = req
        /\ result' = verify_expires_at(claims, t, req)
        /\ UNCHANGED <<claims, cmp, wire, decoded>>

VerifyIssuedAt ==
    \E t \in Instants, req \in BOOLEAN :
        /\ op' = "verify_issued_at"
        /\ now' = t
        /\ required' = req
        /\ result' = verify_issued_at(claims, t, req)
        /\ UNCHANGED <<claims, cmp, wire, decoded>>

VerifyNotBefore ==
    \E t \in Instants, req \in BOOLEAN :
        /\ op' = "verify_not_before"
        /\ now' = t
        /\ required' = req
        /\ result' = verify_not_before(claims, t, req)
        /\ UNCHANGED <<claims, cmp, wire, decoded>>

VerifyAudience ==
    \E s \in Strings, req \in BOOLEAN :
        /\ op' = "verify_audience"
        /\ cmp' = s
        /\ required' = req
        /\ result' = verify_audience(claims, s, req)
        /\ UNCHANGED <<claims, now, wire, decoded>>

VerifyIssuer ==
    \E s \in Strings, req \in BOOLEAN :
        /\ op' = "verify_issuer"
        /\ cmp' = s
        /\ required' = req
        /\ result' = verify_issuer(claims, s, req)
        /\ UNCHANGED <<claims, now, wire, decoded>>

Serialize ==
    /\ op' = "serialize"
    /\ wire' = to_string(claims)
    /\ decoded' = NoResult
    /\ UNCHANGED <<claims, now, required, cmp, result>>

Deserialize ==
    /\ op = "serialize"
    /\ op' = "deserialize"
    /\ decoded' = from_str(wire)
    /\ UNCHANGED <<claims, now, required, cmp, result, wire>>

Next == Valid \/ VerifyExpiresAt \/ VerifyIssuedAt \/ VerifyNotBefore

NextText == VerifyAudience \/ VerifyIssuer

NextCodec == Serialize \/ Deserialize

Spec == Init /\ [][Next]_vars

SpecText == InitText /\ [][NextText]_vars

SpecCodec == InitCodec /\ [][NextCodec]_vars

----------------------------------------------------------------------------
(* Properties *)

\* the test the predicates apply to a present instant: its epoch seconds are 0
IsEpochZero(o) == o # None /\ timestamp(o[1]) = 0

\* a present instant that the predicates enforce
IsSet(o) == o # None /\ timestamp(o[1]) # 0

\* C1, as stated: whenever expires_at is present and at or before now, valid
\* fails with TokenExpired, whatever issued_at and not_before are.
C1_ExpiredAsStated ==
    (op = "valid" /\ claims.expires_at # None /\ claims.expires_at[1] <= now)
        => result = "TokenExpired"

\* C1, amended: whenever expires_at is present, its epoch seconds are not 0 and
\* it is at or before now, valid fails with TokenExpired, whatever issued_at
\* and not_before are; with epoch seconds of 0 valid never reports TokenExpired.
C1_ExpiredPrecedence ==
    op = "valid" =>
        /\ (IsSet(claims.expires_at) /\ claims.expires_at[1] <= now)
              => result = "TokenExpired"
        /\ IsEpochZero(claims.expires_at) => result # "TokenExpired"

C1_Witness ==
    /\ op = "valid"
    /\ IsSet(claims.expires_at) /\ claims.expires_at[1] <= now
    /\ IsSet(claims.issued_at) /\ claims.issued_at[1] > now
    /\ IsSet(claims.not_before) /\ claims.not_before[1] > now
    /\ result = "TokenExpired"

\* C2: with expires_at strictly after now, issued_at at or before now and
\* not_before at or before now, valid returns Ok, whatever the text fields are.
C2_ValidSucceeds ==
    (/\ op = "valid"
     /\ claims.expires_at # None /\ claims.expires_at[1] > now
     /\ claims.issued_at # None /\ claims.issued_at[1] <= now
     /\ claims.not_before # None /\ claims.not_before[1] <= now)
        => result = "Ok"

C2_Witness ==
    /\ op = "valid"
    /\ IsSet(claims.expires_at) /\ claims.expires_at[1] > now
    /\ IsSet(claims.issued_at) /\ claims.issued_at[1] = now
    /\ IsSet(claims.not_before) /\ claims.not_before[1] < now
    /\ claims.issuer # <<>> /\ claims.audience # <<>>
    /\ result = "Ok"

\* the three checks of valid, each with required = false, stated on the fields
ExpiryFails == IsSet(claims.expires_at) /\ ~(now < claims.expires_at[1])

IssuedAtFails == IsSet(claims.issued_at) /\ ~(now >= claims.issued_at[1])

NotBeforeFails == IsSet(claims.not_before) /\ ~(now >= claims.not_before[1])

\* C3: valid reports the first failing check in the order expiry, issued-at,
\* not-before (each with required = false), and Ok exactly when none fails.
C3_FirstFailure ==
    op = "valid" =>
        /\ result = (IF ExpiryFails THEN "TokenExpired"
                     ELSE IF IssuedAtFails THEN "TokenUsedBeforeIssued"
                     ELSE IF NotBeforeFails THEN "TokenNotValidYet"
                     ELSE "Ok")
        /\ required = FALSE
        /\ (result = "Ok") <=> ~(ExpiryFails \/ IssuedAtFails \/ NotBeforeFails)

C3_Witness ==
    /\ op = "valid"
    /\ ~ExpiryFails /\ IssuedAtFails /\ NotBeforeFails
    /\ result = "TokenUsedBeforeIssued"

C5_ExpiresAtAsStated ==
    op = "verify_expires_at" =>
        result = (IF (claims.expires_at = None \/ IsEpochZero(claims.expires_at))
                     /\ ~required
                  THEN TRUE
                  ELSE claims.expires_at # None /\ now < claims.expires_at[1])

\* C5, amended: when expires_at is absent or its epoch seconds are 0 the result
\* is true iff required is false; otherwise it is true iff now is strictly
\* before the expiry instant, whatever required is.
C5_ExpiresAt ==
    op = "verify_expires_at" =>
        result = (IF claims.expires_at = None \/ IsEpochZero(claims.expires_at)
                  THEN ~required
                  ELSE now < claims.expires_at[1])

C5_Witness ==
    /\ op = "verify_expires_at"
    /\ IsSet(claims.expires_at)
    /\ now = claims.expires_at[1]
    /\ required
    /\ result = FALSE

\* C6: verify_not_before and verify_issued_at: when the field is absent or
\* epoch-zero the result is true iff required is false; otherwise it is true
\* iff now >= the field's instant, whatever required is.
C6_InclusiveBound ==
    /\ op = "verify_not_before" =>
          result = (IF claims.not_before = None \/ IsEpochZero(claims.not_before)
                    THEN ~required
                    ELSE now >= claims.not_before[1])
    /\ op = "verify_issued_at" =>
          result = (IF claims.issued_at = None \/ IsEpochZero(claims.issued_at)
                    THEN ~required
                    ELSE now >= claims.issued_at[1])

C6_Witness ==
    /\ op = "verify_not_before"
    /\ IsSet(claims.not_before)
    /\ now = claims.not_before[1]
    /\ required
    /\ result = TRUE

\* C7: verify_audience: an empty audience, or one whose entries are all empty
\* strings, gives true iff required is false; otherwise the result is true iff
\* some entry, at any position, equals the expected string byte for byte.
C7_Audience ==
    op = "verify_audience" =>
        result = (IF claims.audience = <<>> THEN ~required
                  ELSE IF \A i \in 1..Len(claims.audience) : claims.audience[i] = <<>>
                       THEN ~required
                       ELSE \E i \in 1..Len(claims.audience) : claims.audience[i] = cmp)

C7_Witness ==
    /\ op = "verify_audience"
    /\ Len(claims.audience) = 2
    /\ claims.audience[1] # <<>>
    /\ claims.audience[1] # cmp
    /\ claims.audience[2] = cmp
    /\ cmp # <<>>
    /\ required
    /\ result = TRUE

\* C8: verify_issuer: an empty issuer gives true iff required is false; a
\* non-empty issuer gives true iff it equals the expected string byte for byte.
C8_Issuer ==
    op = "verify_issuer" =>
        result = (IF claims.issuer = <<>> THEN ~required
                  ELSE claims.issuer = cmp)

C8_Witness ==
    /\ op = "verify_issuer"
    /\ claims.issuer # <<>>
    /\ claims.issuer # cmp
    /\ ~required
    /\ result = FALSE

\* whole-second, non-zero instant
WholeNonZero(o) ==
    o # None /\ o[1] # 0 /\ timestamp(o[1]) * TicksPerSecond = o[1]

\* C9: a record whose text fields and audience are non-empty and whose three
\* instants are present with non-zero whole-second values decodes from its
\* encoding to a field-wise equal record.
C9_RoundTrip ==
    (/\ op = "deserialize"
     /\ claims.issuer # <<>> /\ claims.subject # <<>> /\ claims.id # <<>>
     /\ claims.audience # <<>>
     /\ WholeNonZero(claims.expires_at)
     /\ WholeNonZero(claims.not_before)
     /\ WholeNonZero(claims.issued_at))
        => (decoded.ok /\ decoded.value = claims)

\* the wire keys of the data model, in field order
WireKeys == <<"iss", "sub", "aud", "exp", "nbf", "iat", "jti">>

Present(c) ==
    <<c.issuer # <<>>, c.subject # <<>>, c.audience # <<>>,
      c.expires_at # None, c.not_before # None, c.issued_at # None,
      c.id # <<>> >>

RECURSIVE ExpectedKeys(_, _)
ExpectedKeys(c, i) ==
    IF i > Len(WireKeys) THEN <<>>
    ELSE (IF Present(c)[i] THEN <<WireKeys[i]>> ELSE <<>>) \o ExpectedKeys(c, i + 1)

\* C10: the encoded document holds, in field order, exactly the keys of the
\* non-empty/present fields, each under its own key (iss, sub, aud, exp, nbf,
\* iat, jti), and no key twice.
C10_DistinctKeys ==
    op = "serialize" =>
        /\ [i \in 1..Len(wire) |-> wire[i][1]] = ExpectedKeys(claims, 1)
        /\ \A i, j \in 1..Len(wire) : (wire[i][1] = wire[j][1]) => i = j

====
